---- MODULE Spec2Model ----
(***************************************************************************)
(* Material In/Out Approval Tool (app.py v2.6.1): the request workflow as  *)
(* a state machine over the SQLite tables (settings, requests, approvals,  *)
(* photos, executions, outputs) and the Streamlit session state.           *)
(*                                                                         *)
(* Streamlit runs main() from top to bottom on every interaction; the tabs *)
(* are all rendered in one run, in the order request, approval, execute,   *)
(* outputs, ledger, admin.  A run carries at most one button click, and    *)
(* st.rerun() ends the run.  pc is the position of the current run in      *)
(* main(); each action is one page function (page_execute is cut at its    *)
(* button, so that what the page does while rendering and what the button  *)
(* handler does are separate steps of the same run).                       *)
(*                                                                         *)
(* Texts the code strips or tests for blankness are sequences of one-      *)
(* character strings.  Role names are romanised: hyeopryeoksa, gongsa,     *)
(* anjeon, gyeongbi.  uuid4 ids are the row's index in its table.          *)
(* now_str() is the constant NowStr (no clock is modelled).                *)
(***************************************************************************)
EXTENDS Integers, Sequences, FiniteSets, Bags, TLC

VARIABLES settings, requests, approvals, photos, executions, outputs,
          session, pc, sel, ok, msg, calls

vars == <<settings, requests, approvals, photos, executions, outputs,
          session, pc, sel, ok, msg, calls>>

db == <<settings, requests, approvals, photos, executions, outputs>>

-----------------------------------------------------------------------------
(* Bounds *)
MaxReq == 1
MaxPhotos == 4
MaxMany == 2

-----------------------------------------------------------------------------
(* Constants / Version *)
DEFAULT_SITE_PIN == <<"1", "2", "3", "4">>
DEFAULT_ADMIN_PIN == <<"9", "9", "9", "9">>
ROLES == <<"hyeopryeoksa", "gongsa", "anjeon", "gyeongbi">>
REQ_STATUS == <<"PENDING_APPROVAL", "APPROVED", "REJECTED", "EXECUTING", "DONE">>
KIND_IN == "IN"
KIND_OUT == "OUT"
EXEC_REQUIRED_PHOTOS == <<"pre_load", "post_load", "area_ctrl">>
(* the default training URL, "https://example.com/visitor-training"; a URL  *)
(* is a sequence of symbols: a blank, a scheme with its "://", a host+path  *)
DEFAULT_SIC_URL == <<"https://", "example.com/visitor-training">>

Range(s) == {s[i] : i \in DOMAIN s}

NULL == <<"NULL">>
(* None, where the code returns Optional[Dict] *)
NoRow == [none |-> TRUE]
NowStr == <<"t", "s">>

-----------------------------------------------------------------------------
(* Helpers: str.strip() *)
RECURSIVE LStrip(_)
LStrip(s) == IF s # <<>> /\ Head(s) = " " THEN LStrip(Tail(s)) ELSE s

RECURSIVE RStrip(_)
RStrip(s) ==
  IF s # <<>> /\ s[Len(s)] = " " THEN RStrip(SubSeq(s, 1, Len(s) - 1)) ELSE s

Strip(s) == RStrip(LStrip(s))

(* Python truthiness of a str / Optional[str] *)
Truthy(s) == s # NULL /\ s # <<>>

-----------------------------------------------------------------------------
(* DB init & migration *)
DefaultRouting == [IN |-> <<"gongsa">>, OUT |-> <<"anjeon", "gongsa">>]

(* a slip: the default written whether or not the key is there *)
set_default_overwrite(s, key, val) ==
  IF key \in DOMAIN s THEN [s EXCEPT ![key] = val] ELSE s @@ (key :> val)

set_default(s, key, val) == IF key \in DOMAIN s THEN s ELSE s @@ (key :> val)

db_init_and_migrate(s) ==
  set_default(
    set_default(
      set_default(
        set_default(s, "site_pin", DEFAULT_SITE_PIN),
        "admin_pin", DEFAULT_ADMIN_PIN),
      "sic_training_url_default", DEFAULT_SIC_URL),
    "approval_routing_json", DefaultRouting)

settings_get(s, key, default) == IF key \in DOMAIN s THEN s[key] ELSE default

settings_set(s, key, value) ==
  IF key \in DOMAIN s THEN [s EXCEPT ![key] = value] ELSE s @@ (key :> value)

-----------------------------------------------------------------------------
(* Request CRUD *)
(* a slip: an id that is not fresh *)
req_insert_same_id(reqs, data) ==
  Append(reqs,
    [ id             |-> 1,
      created_at     |-> NowStr,
      updated_at     |-> NowStr,
      status         |-> "PENDING_APPROVAL",
      kind           |-> data.kind,
      company_name   |-> data.company_name,
      item_name      |-> data.item_name,
      vehicle_type   |-> data.vehicle_type,
      driver_phone   |-> data.driver_phone,
      requester_name |-> data.requester_name,
      requester_role |-> data.requester_role,
      sic_training_url |-> data.sic_training_url ])

req_insert(reqs, data) ==
  Append(reqs,
    [ id             |-> Len(reqs) + 1,
      created_at     |-> NowStr,
      updated_at     |-> NowStr,
      status         |-> "PENDING_APPROVAL",
      kind           |-> data.kind,
      company_name   |-> data.company_name,
      item_name      |-> data.item_name,
      vehicle_type   |-> data.vehicle_type,
      driver_phone   |-> data.driver_phone,
      requester_name |-> data.requester_name,
      requester_role |-> data.requester_role,
      sic_training_url |-> data.sic_training_url ])

(* a slip: the WHERE id=? left out of the UPDATE *)
req_update_status_all(reqs, rid, status) ==
  [i \in DOMAIN reqs |->
     [reqs[i] EXCEPT !.status = status, !.updated_at = NowStr]]

req_update_status(reqs, rid, status) ==
  [i \in DOMAIN reqs |->
     IF reqs[i].id = rid
       THEN [reqs[i] EXCEPT !.status = status, !.updated_at = NowStr]
       ELSE reqs[i]]

req_get(reqs, rid) ==
  IF \E i \in DOMAIN reqs : reqs[i].id = rid
    THEN reqs[CHOOSE i \in DOMAIN reqs : reqs[i].id = rid]
    ELSE NoRow

-----------------------------------------------------------------------------
(* Approval logic *)
(* the stored routing text when json.loads cannot read it *)
NotJson == [unparseable |-> TRUE]

(* json.loads("{}") *)
EmptyDict == [k \in {} |-> <<>>]

routing_get(s) ==
  LET raw == settings_get(s, "approval_routing_json", EmptyDict)
  IN IF raw = NotJson THEN DefaultRouting ELSE raw

(* a slip: the "or" that replaces an empty list left out *)
RoutingRolesNoFallback(s, kind) ==
  LET routing == routing_get(s)
  IN IF kind \in DOMAIN routing THEN routing[kind] ELSE <<"gongsa">>

RoutingRoles(s, kind) ==
  LET routing == routing_get(s)
      got == IF kind \in DOMAIN routing THEN routing[kind] ELSE <<"gongsa">>
  IN IF got = <<>> THEN <<"gongsa">> ELSE got

approvals_create_default(apps, s, rid, kind) ==
  LET roles == RoutingRoles(s, kind)
  IN apps \o [i \in 1..Len(roles) |->
       [ id            |-> Len(apps) + i,
         req_id        |-> rid,
         step_no       |-> i,
         role_required |-> roles[i],
         status        |-> "PENDING",
         signer_name   |-> NULL,
         signer_role   |-> NULL,
         sign_png_path |-> NULL,
         signed_at     |-> NULL,
         reject_reason |-> NULL ]]

(* a slip: the role filter left out *)
approvals_inbox_all(apps, user_role, is_admin) ==
  {a \in DOMAIN apps : apps[a].status = "PENDING"}

(* the ids of the rows approvals_inbox returns *)
approvals_inbox(apps, user_role, is_admin) ==
  {a \in DOMAIN apps :
     /\ apps[a].status = "PENDING"
     /\ (is_admin \/ apps[a].role_required = user_role)}

approvals_for_req(apps, rid) == {a \in DOMAIN apps : apps[a].req_id = rid}

(* approval_mark, statement by statement *)
MarkFound(apps, approval_id) == approval_id \in DOMAIN apps

(* a slip: the status test left out *)
MarkPendingUnchecked(apps, approval_id) == TRUE

MarkPending(apps, approval_id) == apps[approval_id].status = "PENDING"

MarkApproveUpdate(apps, approval_id, signer_name, signer_role, sign_path) ==
  [apps EXCEPT ![approval_id] =
     [@ EXCEPT !.status = "APPROVED", !.signer_name = signer_name,
               !.signer_role = signer_role, !.sign_png_path = sign_path,
               !.signed_at = NowStr]]

MarkRejectUpdate(apps, approval_id, signer_name, signer_role, reject_reason) ==
  [apps EXCEPT ![approval_id] =
     [@ EXCEPT !.status = "REJECTED", !.signer_name = signer_name,
               !.signer_role = signer_role, !.reject_reason = reject_reason,
               !.signed_at = NowStr]]

PendingLeft(apps, rid) ==
  Cardinality({a \in DOMAIN apps :
                 apps[a].req_id = rid /\ apps[a].status = "PENDING"})

(* approval_mark run without interruption: the tables after it, the request *)
(* id and the message it returns                                            *)
approval_mark(apps, reqs, approval_id, action, signer_name, signer_role, sign_path, reject_reason) ==
  IF ~MarkFound(apps, approval_id)
    THEN [apps |-> apps, reqs |-> reqs, rid |-> 0, msg |-> "not found"]
  ELSE IF ~MarkPending(apps, approval_id)
    THEN [apps |-> apps, reqs |-> reqs, rid |-> apps[approval_id].req_id,
          msg |-> "already processed"]
  ELSE IF action = "APPROVE"
    THEN LET rid == apps[approval_id].req_id
             apps2 == MarkApproveUpdate(apps, approval_id, signer_name,
                                        signer_role, sign_path)
         IN IF PendingLeft(apps2, rid) = 0
              THEN [apps |-> apps2,
                    reqs |-> req_update_status(reqs, rid, "APPROVED"),
                    rid |-> rid, msg |-> "final approval done"]
              ELSE [apps |-> apps2, reqs |-> reqs, rid |-> rid,
                    msg |-> "approved, next approver pending"]
  ELSE LET rid == apps[approval_id].req_id
       IN [apps |-> MarkRejectUpdate(apps, approval_id, signer_name,
                                     signer_role, reject_reason),
           reqs |-> req_update_status(reqs, rid, "REJECTED"),
           rid |-> rid, msg |-> "rejected"]

-----------------------------------------------------------------------------
(* Photo management *)
PhotoRow(rid, slot_key) == [req_id |-> rid, slot_key |-> slot_key]

(* photo_add once for every slot key in keys *)
photo_add_all(ph, rid, keys) ==
  ph (+) SetToBag({PhotoRow(rid, k) : k \in keys})

(* a slip: the WHERE req_id=? left out of the SELECT *)
photos_for_req_all(ph, rid) == BagToSet(ph)

photos_for_req(ph, rid) == {p \in BagToSet(ph) : p.req_id = rid}

(* a slip: counting the distinct slot keys instead of looking for each *)
required_photos_ok_counted(ph, rid) ==
  Cardinality({p.slot_key : p \in photos_for_req(ph, rid)})
    >= Len(EXEC_REQUIRED_PHOTOS)

required_photos_ok(ph, rid) ==
  LET keys == {p.slot_key : p \in {q \in photos_for_req(ph, rid) :
                                     q.slot_key # ""}}
  IN \A k \in Range(EXEC_REQUIRED_PHOTOS) : k \in keys

-----------------------------------------------------------------------------
(* Check card / executions *)
(* a slip: a plain INSERT, without the ON CONFLICT(req_id) DO UPDATE *)
execution_upsert_insert(ex, ph, rid, executed_by, executed_role, check_json) ==
  ex \cup {[ req_id            |-> rid,
             executed_by       |-> executed_by,
             executed_role     |-> executed_role,
             executed_at       |-> NowStr,
             check_json        |-> check_json,
             required_photo_ok |-> IF required_photos_ok(ph, rid) THEN 1 ELSE 0 ]}

execution_upsert(ex, ph, rid, executed_by, executed_role, check_json) ==
  LET row == [ req_id            |-> rid,
               executed_by       |-> executed_by,
               executed_role     |-> executed_role,
               executed_at       |-> NowStr,
               check_json        |-> check_json,
               required_photo_ok |-> IF required_photos_ok(ph, rid) THEN 1 ELSE 0 ]
  IN {e \in ex : e.req_id # rid} \cup {row}

execution_get(ex, rid) ==
  IF \E e \in ex : e.req_id = rid
    THEN CHOOSE e \in ex : e.req_id = rid
    ELSE NoRow

-----------------------------------------------------------------------------
(* Output generation: the outputs row generate_all_outputs leaves, with the *)
(* URL it hands to qr_generate_png and pdf_permit                           *)
generate_all_outputs(outs, s, reqs, ex, rid) ==
  IF req_get(reqs, rid) = NoRow
    THEN outs
    ELSE LET req == req_get(reqs, rid)
             sic_default == settings_get(s, "sic_training_url_default",
                                         DEFAULT_SIC_URL)
             sic_url == IF Strip(req.sic_training_url) # <<>>
                          THEN Strip(req.sic_training_url) ELSE sic_default
         IN {o \in outs : o.req_id # rid}
              \cup {[req_id |-> rid, sic_url |-> sic_url]}

-----------------------------------------------------------------------------
(* Auth / Session *)
auth_reset ==
  [AUTH_OK |-> FALSE, IS_ADMIN |-> FALSE, USER_NAME |-> <<>>,
   USER_ROLE |-> "hyeopryeoksa"]

(* a slip: the test of the name left out *)
auth_login_any_name(ss, s, site_pin, name, role, is_admin, admin_pin) ==
  LET sp == settings_get(s, "site_pin", DEFAULT_SITE_PIN)
      ap == settings_get(s, "admin_pin", DEFAULT_ADMIN_PIN)
  IN IF site_pin # sp
       THEN [ok |-> FALSE, msg |-> "bad site pin", ss |-> ss]
     ELSE IF role \notin Range(ROLES)
       THEN [ok |-> FALSE, msg |-> "bad role", ss |-> ss]
     ELSE IF is_admin /\ admin_pin # ap
       THEN [ok |-> FALSE, msg |-> "bad admin pin", ss |-> ss]
     ELSE [ok |-> TRUE, msg |-> "login done",
           ss |-> [AUTH_OK |-> TRUE, IS_ADMIN |-> is_admin,
                   USER_NAME |-> Strip(name), USER_ROLE |-> role]]

(* a slip: the PINs compared with the built-in defaults, not the stored ones *)
auth_login_default_pins(ss, s, site_pin, name, role, is_admin, admin_pin) ==
  IF site_pin # DEFAULT_SITE_PIN
    THEN [ok |-> FALSE, msg |-> "bad site pin", ss |-> ss]
  ELSE IF Strip(name) = <<>>
    THEN [ok |-> FALSE, msg |-> "name required", ss |-> ss]
  ELSE IF role \notin Range(ROLES)
    THEN [ok |-> FALSE, msg |-> "bad role", ss |-> ss]
  ELSE IF is_admin /\ admin_pin # DEFAULT_ADMIN_PIN
    THEN [ok |-> FALSE, msg |-> "bad admin pin", ss |-> ss]
  ELSE [ok |-> TRUE, msg |-> "login done",
        ss |-> [AUTH_OK |-> TRUE, IS_ADMIN |-> is_admin,
                USER_NAME |-> Strip(name), USER_ROLE |-> role]]

(* auth_login: (ok, message) and the session state it leaves *)
auth_login(ss, s, site_pin, name, role, is_admin, admin_pin) ==
  LET sp == settings_get(s, "site_pin", DEFAULT_SITE_PIN)
      ap == settings_get(s, "admin_pin", DEFAULT_ADMIN_PIN)
  IN IF site_pin # sp
       THEN [ok |-> FALSE, msg |-> "bad site pin", ss |-> ss]
     ELSE IF Strip(name) = <<>>
       THEN [ok |-> FALSE, msg |-> "name required", ss |-> ss]
     ELSE IF role \notin Range(ROLES)
       THEN [ok |-> FALSE, msg |-> "bad role", ss |-> ss]
     ELSE IF is_admin /\ admin_pin # ap
       THEN [ok |-> FALSE, msg |-> "bad admin pin", ss |-> ss]
     ELSE [ok |-> TRUE, msg |-> "login done",
           ss |-> [AUTH_OK |-> TRUE, IS_ADMIN |-> is_admin,
                   USER_NAME |-> Strip(name), USER_ROLE |-> role]]

-----------------------------------------------------------------------------
(* page_admin: parse_route on the text of a routing field.  The text is a   *)
(* sequence of symbols: a role name, a comma, a blank, or another character *)
RECURSIVE SplitComma(_, _)
SplitComma(s, cur) ==
  IF s = <<>> THEN <<cur>>
  ELSE IF Head(s) = "," THEN <<cur>> \o SplitComma(Tail(s), <<>>)
  ELSE SplitComma(Tail(s), Append(cur, Head(s)))

parse_route(s) ==
  LET segs == SplitComma(s, <<>>)
      stripped == [i \in DOMAIN segs |-> Strip(segs[i])]
      parts == SelectSeq(stripped, LAMBDA x : x # <<>>)
      valid == SelectSeq(parts,
                 LAMBDA x : Len(x) = 1 /\ x[1] \in Range(ROLES))
      roles == [i \in DOMAIN valid |-> valid[i][1]]
  IN IF roles = <<>> THEN <<"gongsa">> ELSE roles

OrDefault(s, default) == IF Strip(s) = <<>> THEN default ELSE Strip(s)

admin_save(s, form) ==
  settings_set(
    settings_set(
      settings_set(
        settings_set(s, "site_pin", OrDefault(form.site_pin, DEFAULT_SITE_PIN)),
        "admin_pin", OrDefault(form.admin_pin, DEFAULT_ADMIN_PIN)),
      "sic_training_url_default", OrDefault(form.sic_default, DEFAULT_SIC_URL)),
    "approval_routing_json",
    [IN |-> parse_route(form.in_route), OUT |-> parse_route(form.out_route)])

-----------------------------------------------------------------------------
(* Inputs *)
(* what is typed into the settings form: new PINs and routes, and the form  *)
(* that brings the defaults back (a blank site PIN stands for the default)  *)
AdminForms ==
  { [site_pin |-> <<" ", "0", " ">>, admin_pin |-> <<"0", " ">>,
     sic_default |-> <<" ">>,
     in_route |-> <<" ", "gongsa", ",">>,
     out_route |-> <<"x", ",", " ">>],
    [site_pin |-> <<" ">>, admin_pin |-> DEFAULT_ADMIN_PIN,
     sic_default |-> DEFAULT_SIC_URL,
     in_route |-> <<"gongsa">>,
     out_route |-> <<"anjeon", ",", "gongsa">>] }
(* what is typed into the login form: three users, of whom the first knows *)
(* the admin PIN, and the ways a login goes wrong                          *)
LoginInputs ==
  LET in(sp, n, r, adm, ap) ==
        [site_pin |-> sp, name |-> n, role |-> r, is_admin |-> adm,
         admin_pin |-> ap]
  IN { in(sp, <<" ", "k", " ">>, "gongsa", adm, IF adm THEN ap ELSE <<>>) :
         sp \in {DEFAULT_SITE_PIN, <<"0">>}, adm \in BOOLEAN,
         ap \in {DEFAULT_ADMIN_PIN, <<"0">>} }
     \cup { in(sp, n, r, FALSE, <<>>) :
         sp \in {DEFAULT_SITE_PIN, <<"0">>},
         n \in {<<"j">>, <<" ">>, <<>>}, r \in {"anjeon", "visitor"} }
     \cup { in(DEFAULT_SITE_PIN, <<"h">>, "hyeopryeoksa", FALSE, <<>>) }
ReasonInputs == {<<>>, <<" ">>, <<" ", "n", "g">>}
SignInputs == {NULL, <<"s", "i", "g", "n">>}
CheckInputs == {<<"o", "k">>}
KeySets == {{}, {"pre_load", "post_load"},
            {"pre_load", "post_load", "area_ctrl"}}
OptionalSets == {{}, {"optional"}}

Filled == [company_name |-> <<"A">>, item_name |-> <<"r">>,
           vehicle_type |-> <<"c">>, driver_phone |-> <<"0">>,
           sic_training_url |-> <<>>]
Blank  == [company_name |-> <<>>, item_name |-> <<>>,
           vehicle_type |-> <<>>, driver_phone |-> <<>>,
           sic_training_url |-> <<" ">>]
FormInputs == {Filled, Blank}

-----------------------------------------------------------------------------
(* Two sessions inside approval_mark at the same time: the call frame of    *)
(* each, positioned between the statements that read or commit              *)
Callers == {1, 2}

IdleCall ==
  [pc |-> "idle", approval_id |-> 0, action |-> "", signer_name |-> <<>>,
   signer_role |-> "", reject_reason |-> <<>>, rid |-> 0, left |-> 0,
   msg |-> ""]

-----------------------------------------------------------------------------
Init ==
  /\ settings = db_init_and_migrate(<<>>)
  /\ requests = <<>>
  /\ approvals = <<>>
  /\ photos = EmptyBag
  /\ executions = {}
  /\ outputs = {}
  /\ session = auth_reset
  /\ pc = "idle"
  /\ sel = 0
  /\ ok = FALSE
  /\ msg = ""
  /\ calls = [c \in Callers |-> IdleCall]

(* pc: "idle" between runs; "execute" when main() has reached page_execute; *)
(* "execute_btn" when page_execute is at its button (sel, ok hold its rid   *)
(* and ok) or has returned for want of requests (sel = 0); "tail" when a    *)
(* click of this run has been answered with st.error and the remaining      *)
(* pages only render.  msg is the st.error text of the latest step.         *)

(* sidebar: the logout button *)
Logout ==
  /\ pc = "idle"
  /\ session.AUTH_OK
  /\ session' = auth_reset
  /\ msg' = ""
  /\ UNCHANGED <<db, pc, sel, ok, calls>>

(* page_login: the login button *)
PageLogin(site_pin, name, role, is_admin, admin_pin) ==
  /\ pc = "idle"
  /\ ~session.AUTH_OK
  /\ session' = auth_login(session, db_init_and_migrate(settings), site_pin,
                           name, role, is_admin, admin_pin).ss
  /\ settings' = db_init_and_migrate(settings)
  /\ msg' = ""
  /\ UNCHANGED <<requests, approvals, photos, executions, outputs, pc, sel,
                 ok, calls>>

(* main() and page_request: the submit button, on a store that holds fewer  *)
(* than max requests                                                        *)
PageRequestSubmitUpTo(kind, form, max) ==
  /\ pc = "idle"
  /\ session.AUTH_OK
  /\ Len(requests) < max
  /\ LET data == [kind |-> kind,
                  company_name |-> form.company_name,
                  item_name |-> form.item_name,
                  vehicle_type |-> form.vehicle_type,
                  driver_phone |-> form.driver_phone,
                  requester_name |-> session.USER_NAME,
                  requester_role |-> session.USER_ROLE,
                  sic_training_url |-> Strip(form.sic_training_url)]
         rid == Len(requests) + 1
     IN /\ requests' = req_insert(requests, data)
        /\ approvals' = approvals_create_default(
                           approvals, db_init_and_migrate(settings), rid, kind)
  /\ settings' = db_init_and_migrate(settings)
  /\ msg' = ""
  /\ UNCHANGED <<photos, executions, outputs, session, pc, sel, ok, calls>>

PageRequestSubmit(kind, form) == PageRequestSubmitUpTo(kind, form, MaxReq)

Inbox == approvals_inbox(approvals, session.USER_ROLE, session.IS_ADMIN)

(* a slip: the outputs generated after every approval *)
PageApprovalApproveAlways(approval_id, sign_path) ==
  /\ pc = "idle"
  /\ session.AUTH_OK
  /\ approval_id \in Inbox
  /\ IF ~Truthy(sign_path)
       THEN /\ pc' = "execute"
            /\ msg' = "sign required"
            /\ UNCHANGED <<requests, approvals, outputs>>
       ELSE LET r == approval_mark(approvals, requests, approval_id, "APPROVE",
                                   session.USER_NAME, session.USER_ROLE,
                                   sign_path, <<>>)
            IN /\ approvals' = r.apps
               /\ requests' = r.reqs
               /\ outputs' = generate_all_outputs(outputs, settings, r.reqs,
                                                  executions, r.rid)
               /\ pc' = "idle"
               /\ msg' = ""
  /\ settings' = db_init_and_migrate(settings)
  /\ UNCHANGED <<photos, executions, session, sel, ok, calls>>

(* main(), page_request rendered, page_approval: the approve button on the  *)
(* selected inbox item                                                      *)
PageApprovalApprove(approval_id, sign_path) ==
  /\ pc = "idle"
  /\ session.AUTH_OK
  /\ approval_id \in Inbox
  /\ IF ~Truthy(sign_path)
       THEN /\ pc' = "execute"
            /\ msg' = "sign required"
            /\ UNCHANGED <<requests, approvals, outputs>>
       ELSE LET r == approval_mark(approvals, requests, approval_id, "APPROVE",
                                   session.USER_NAME, session.USER_ROLE,
                                   sign_path, <<>>)
                req2 == req_get(r.reqs, r.rid)
            IN /\ approvals' = r.apps
               /\ requests' = r.reqs
               /\ outputs' = IF req2 # NoRow /\ req2.status = "APPROVED"
                               THEN generate_all_outputs(outputs, settings, r.reqs,
                                                         executions, r.rid)
                               ELSE outputs
               /\ pc' = "idle"
               /\ msg' = ""
  /\ settings' = db_init_and_migrate(settings)
  /\ UNCHANGED <<photos, executions, session, sel, ok, calls>>

(* a slip: the reject button without the test of the reason *)
PageApprovalRejectUnchecked(approval_id, reject_reason) ==
  /\ pc = "idle"
  /\ session.AUTH_OK
  /\ approval_id \in Inbox
  /\ LET r == approval_mark(approvals, requests, approval_id, "REJECT",
                            session.USER_NAME, session.USER_ROLE,
                            NULL, Strip(reject_reason))
     IN /\ approvals' = r.apps
        /\ requests' = r.reqs
        /\ pc' = "idle"
        /\ msg' = ""
  /\ settings' = db_init_and_migrate(settings)
  /\ UNCHANGED <<photos, executions, outputs, session, sel, ok, calls>>

(* main(), page_request rendered, page_approval: the reject button on the   *)
(* selected inbox item                                                      *)
PageApprovalReject(approval_id, reject_reason) ==
  /\ pc = "idle"
  /\ session.AUTH_OK
  /\ approval_id \in Inbox
  /\ IF Strip(reject_reason) = <<>>
       THEN /\ pc' = "execute"
            /\ msg' = "reason required"
            /\ UNCHANGED <<requests, approvals>>
       ELSE LET r == approval_mark(approvals, requests, approval_id, "REJECT",
                                   session.USER_NAME, session.USER_ROLE,
                                   NULL, Strip(reject_reason))
            IN /\ approvals' = r.apps
               /\ requests' = r.reqs
               /\ pc' = "idle"
               /\ msg' = ""
  /\ settings' = db_init_and_migrate(settings)
  /\ UNCHANGED <<photos, executions, outputs, session, sel, ok, calls>>

(* main(), page_request and page_approval rendered without a click *)
PageApprovalPass ==
  /\ pc = "idle"
  /\ session.AUTH_OK
  /\ settings' = db_init_and_migrate(settings)
  /\ pc' = "execute"
  /\ msg' = ""
  /\ UNCHANGED <<requests, approvals, photos, executions, outputs, session,
                 sel, ok, calls>>

(* page_execute down to its button: the selected request, the status       *)
(* update, the photo widgets (camera, upload in its place, optional         *)
(* uploads), required_photos_ok                                             *)
PageExecuteRender(rid, cams, opts) ==
  /\ pc = "execute"
  /\ rid \in DOMAIN requests
  /\ BagCardinality(photos) + Cardinality(cams) + Cardinality(opts)
       <= MaxPhotos
  /\ requests' = IF requests[rid].status \in {"APPROVED", "EXECUTING", "DONE"}
                   THEN req_update_status(requests, rid, "EXECUTING")
                   ELSE requests
  /\ photos' = photo_add_all(photo_add_all(photos, rid, cams), rid, opts)
  /\ ok' = required_photos_ok(photos', rid)
  /\ sel' = rid
  /\ pc' = "execute_btn"
  /\ msg' = ""
  /\ UNCHANGED <<settings, approvals, executions, outputs, session, calls>>

(* page_execute with no request in the store *)
PageExecuteEmpty ==
  /\ pc = "execute"
  /\ requests = <<>>
  /\ pc' = "execute_btn"
  /\ msg' = ""
  /\ UNCHANGED <<db, session, sel, ok, calls>>

(* page_execute: the register button *)
PageExecuteRegister(check_json) ==
  /\ pc = "execute_btn"
  /\ sel # 0
  /\ IF ~ok
       THEN /\ pc' = "tail"
            /\ msg' = "photos required"
            /\ UNCHANGED <<requests, executions, outputs>>
       ELSE /\ executions' = execution_upsert(executions, photos, sel,
                                              session.USER_NAME,
                                              session.USER_ROLE, check_json)
            /\ requests' = req_update_status(requests, sel, "DONE")
            /\ outputs' = generate_all_outputs(outputs, settings, requests',
                                               executions',
                                               sel)
            /\ pc' = "idle"
            /\ msg' = ""
  /\ sel' = 0
  /\ ok' = FALSE
  /\ UNCHANGED <<settings, approvals, photos, session, calls>>

(* page_outputs after page_execute: the regenerate button *)
PageOutputsRegenerate(rid) ==
  /\ pc = "execute_btn"
  /\ rid \in DOMAIN requests
  /\ outputs' = generate_all_outputs(outputs, settings, requests, executions,
                                     rid)
  /\ pc' = "idle"
  /\ sel' = 0
  /\ ok' = FALSE
  /\ msg' = ""
  /\ UNCHANGED <<settings, requests, approvals, photos, executions, session,
                 calls>>

(* a slip: the steps of the requests in the store given the roles of the   *)
(* routing just saved                                                       *)
PageAdminSaveRerouted(form) ==
  /\ pc = "execute_btn"
  /\ session.IS_ADMIN
  /\ settings' = admin_save(settings, form)
  /\ approvals' =
       [a \in DOMAIN approvals |->
          LET roles == RoutingRoles(settings',
                                    requests[approvals[a].req_id].kind)
          IN IF approvals[a].step_no <= Len(roles)
               THEN [approvals[a] EXCEPT
                       !.role_required = roles[approvals[a].step_no]]
               ELSE approvals[a]]
  /\ pc' = "idle"
  /\ sel' = 0
  /\ ok' = FALSE
  /\ msg' = ""
  /\ UNCHANGED <<requests, photos, executions, outputs, session, calls>>

(* page_admin after page_execute: the save button *)
PageAdminSave(form) ==
  /\ pc = "execute_btn"
  /\ session.IS_ADMIN
  /\ settings' = admin_save(settings, form)
  /\ pc' = "idle"
  /\ sel' = 0
  /\ ok' = FALSE
  /\ msg' = ""
  /\ UNCHANGED <<requests, approvals, photos, executions, outputs, session,
                 calls>>

(* page_admin: the button that empties the output folder.  The files go,   *)
(* the photos, executions and outputs rows that name them stay              *)
PageAdminClearOutput ==
  /\ pc = "execute_btn"
  /\ session.IS_ADMIN
  /\ pc' = "idle"
  /\ sel' = 0
  /\ ok' = FALSE
  /\ msg' = ""
  /\ UNCHANGED <<db, session, calls>>

(* the rest of main() rendered without a click *)
MainEnd ==
  /\ pc \in {"execute_btn", "tail"}
  /\ pc' = "idle"
  /\ sel' = 0
  /\ ok' = FALSE
  /\ msg' = ""
  /\ UNCHANGED <<db, session, calls>>

Next ==
  \/ Logout
  \/ \E i \in LoginInputs :
       PageLogin(i.site_pin, i.name, i.role, i.is_admin, i.admin_pin)
  \/ \E k \in {KIND_IN, KIND_OUT}, f \in FormInputs : PageRequestSubmit(k, f)
  \/ \E a \in DOMAIN approvals, sp \in SignInputs : PageApprovalApprove(a, sp)
  \/ \E a \in DOMAIN approvals, rr \in ReasonInputs : PageApprovalReject(a, rr)
  \/ PageApprovalPass
  \/ \E rid \in DOMAIN requests, c \in KeySets, o \in OptionalSets :
       PageExecuteRender(rid, c, o)
  \/ PageExecuteEmpty
  \/ \E cj \in CheckInputs : PageExecuteRegister(cj)
  \/ \E rid \in DOMAIN requests : PageOutputsRegenerate(rid)
  \/ \E f \in AdminForms : PageAdminSave(f)
  \/ PageAdminClearOutput
  \/ MainEnd

Spec == Init /\ [][Next]_vars

-----------------------------------------------------------------------------
(* The application started on a store file that is already there: settings  *)
(* rows written before (a routing without an entry for IN, one with an      *)
(* empty list, one that is no JSON), or none at all                          *)
StoredSettings ==
  { << >>,
    "approval_routing_json" :> [OUT |-> <<"anjeon">>],
    "approval_routing_json" :> [IN |-> <<>>, OUT |-> <<"gongsa", "gongsa">>],
    "approval_routing_json" :> NotJson }

InitStore ==
  /\ \E st \in StoredSettings : settings = db_init_and_migrate(st)
  /\ requests = <<>>
  /\ approvals = <<>>
  /\ photos = EmptyBag
  /\ executions = {}
  /\ outputs = {}
  /\ session = auth_reset
  /\ pc = "idle"
  /\ sel = 0
  /\ ok = FALSE
  /\ msg = ""
  /\ calls = [c \in Callers |-> IdleCall]

SpecStore == InitStore /\ [][Next]_vars

-----------------------------------------------------------------------------
(* Several requests in the store: the pages as above, for one user and with *)
(* the filled-in form, the signed approval and the full set of photos only  *)
ManyLogins == {i \in LoginInputs : i.name = <<" ", "k", " ">> /\ i.is_admin}

NextMany ==
  \/ Logout
  \/ \E i \in ManyLogins :
       PageLogin(i.site_pin, i.name, i.role, i.is_admin, i.admin_pin)
  \/ \E k \in {KIND_IN, KIND_OUT} : PageRequestSubmitUpTo(k, Filled, MaxMany)
  \/ \E a \in DOMAIN approvals : PageApprovalApprove(a, <<"s", "i", "g", "n">>)
  \/ \E a \in DOMAIN approvals : PageApprovalReject(a, <<" ", "n", "g">>)
  \/ PageApprovalPass
  \/ \E rid \in DOMAIN requests :
       PageExecuteRender(rid, {"pre_load", "post_load", "area_ctrl"}, {})
  \/ PageExecuteEmpty
  \/ \E cj \in CheckInputs : PageExecuteRegister(cj)
  \/ \E rid \in DOMAIN requests : PageOutputsRegenerate(rid)
  \/ MainEnd

SpecMany == Init /\ [][NextMany]_vars

-----------------------------------------------------------------------------
(* Photos taken for several requests: the execution page with any of the    *)
(* sets of photos, for requests at any stage of approval                    *)
NextPhotos ==
  \/ \E i \in ManyLogins :
       PageLogin(i.site_pin, i.name, i.role, i.is_admin, i.admin_pin)
  \/ \E k \in {KIND_IN, KIND_OUT} : PageRequestSubmitUpTo(k, Filled, MaxMany)
  \/ PageApprovalPass
  \/ \E rid \in DOMAIN requests, c \in KeySets, o \in OptionalSets :
       PageExecuteRender(rid, c, o)
  \/ PageExecuteEmpty
  \/ \E cj \in CheckInputs : PageExecuteRegister(cj)
  \/ PageAdminClearOutput
  \/ MainEnd

SpecPhotos == Init /\ [][NextPhotos]_vars

-----------------------------------------------------------------------------
(* The request form with its training URL field filled in: left empty,      *)
(* without a scheme, with blanks around it, with a scheme that is not http  *)
UrlInputs ==
  { <<>>, <<"example.com">>, <<" ", "https://", "x.com", " ">>,
    <<"ftp://", "x.com">> }

UrlForms == {[Filled EXCEPT !.sic_training_url = u] : u \in UrlInputs}

NextUrl ==
  \/ Logout
  \/ \E i \in ManyLogins :
       PageLogin(i.site_pin, i.name, i.role, i.is_admin, i.admin_pin)
  \/ \E k \in {KIND_IN, KIND_OUT}, f \in UrlForms : PageRequestSubmit(k, f)
  \/ \E a \in DOMAIN approvals : PageApprovalApprove(a, <<"s", "i", "g", "n">>)
  \/ \E a \in DOMAIN approvals : PageApprovalReject(a, <<" ", "n", "g">>)
  \/ PageApprovalPass
  \/ \E rid \in DOMAIN requests :
       PageExecuteRender(rid, {"pre_load", "post_load", "area_ctrl"}, {})
  \/ PageExecuteEmpty
  \/ \E cj \in CheckInputs : PageExecuteRegister(cj)
  \/ \E rid \in DOMAIN requests : PageOutputsRegenerate(rid)
  \/ \E f \in AdminForms : PageAdminSave(f)
  \/ MainEnd

SpecUrl == Init /\ [][NextUrl]_vars

-----------------------------------------------------------------------------
(* approval_mark called by two sessions at once, on a store that holds one  *)
(* submitted request                                                        *)
CallerName == <<<<"a">>, <<"b">>>>
CallerRole == <<"anjeon", "gongsa">>

InitConc ==
  /\ settings = db_init_and_migrate(<<>>)
  /\ \E k \in {KIND_IN, KIND_OUT} :
       /\ requests = req_insert(<<>>,
             [kind |-> k, company_name |-> Filled.company_name,
              item_name |-> Filled.item_name,
              vehicle_type |-> Filled.vehicle_type,
              driver_phone |-> Filled.driver_phone,
              requester_name |-> <<"k">>, requester_role |-> "hyeopryeoksa",
              sic_training_url |-> <<>>])
       /\ approvals = approvals_create_default(<<>>, settings, 1, k)
  /\ photos = EmptyBag
  /\ executions = {}
  /\ outputs = {}
  /\ session = auth_reset
  /\ pc = "idle"
  /\ sel = 0
  /\ ok = FALSE
  /\ msg = ""
  /\ calls = [c \in Callers |-> IdleCall]

ConcFrame ==
  <<settings, photos, executions, outputs, session, pc, sel, ok, msg>>

(* a session calls approval_mark(approval_id, action, ...) *)
MarkCall(c, approval_id, action, reject_reason) ==
  /\ calls[c].pc = "idle"
  /\ calls' = [calls EXCEPT ![c] =
       [IdleCall EXCEPT !.pc = "called", !.approval_id = approval_id,
                        !.action = action, !.signer_name = CallerName[c],
                        !.signer_role = CallerRole[c],
                        !.reject_reason = reject_reason]]
  /\ UNCHANGED <<requests, approvals, ConcFrame>>

(* SELECT req_id, status ... and the two early returns *)
MarkSelect(c) ==
  /\ calls[c].pc = "called"
  /\ LET f == calls[c] IN
     calls' = [calls EXCEPT ![c] =
       IF ~MarkFound(approvals, f.approval_id)
         THEN [f EXCEPT !.pc = "done", !.msg = "not found"]
       ELSE IF ~MarkPending(approvals, f.approval_id)
         THEN [f EXCEPT !.pc = "done", !.msg = "already processed",
                        !.rid = approvals[f.approval_id].req_id]
       ELSE [f EXCEPT !.pc = "checked",
                      !.rid = approvals[f.approval_id].req_id]]
  /\ UNCHANGED <<requests, approvals, ConcFrame>>

(* a slip: the UPDATE made conditional on the step still being PENDING *)
MarkUpdateChecked(c) ==
  /\ calls[c].pc = "checked"
  /\ LET f == calls[c] IN
     approvals' =
       IF ~MarkPending(approvals, f.approval_id) THEN approvals
       ELSE IF f.action = "APPROVE"
         THEN MarkApproveUpdate(approvals, f.approval_id, f.signer_name,
                                f.signer_role, <<"s", "i", "g", "n">>)
         ELSE MarkRejectUpdate(approvals, f.approval_id, f.signer_name,
                               f.signer_role, f.reject_reason)
  /\ calls' = [calls EXCEPT ![c].pc = "updated"]
  /\ UNCHANGED <<requests, ConcFrame>>

(* UPDATE approvals ...; con.commit() *)
MarkUpdate(c) ==
  /\ calls[c].pc = "checked"
  /\ LET f == calls[c] IN
     approvals' =
       IF f.action = "APPROVE"
         THEN MarkApproveUpdate(approvals, f.approval_id, f.signer_name,
                                f.signer_role, <<"s", "i", "g", "n">>)
         ELSE MarkRejectUpdate(approvals, f.approval_id, f.signer_name,
                               f.signer_role, f.reject_reason)
  /\ calls' = [calls EXCEPT ![c].pc = "updated"]
  /\ UNCHANGED <<requests, ConcFrame>>

(* a slip: the commit put off to the return, so that the count does not see *)
(* the steps other sessions have updated and not yet committed              *)
MarkCountBeforeCommit(c) ==
  /\ calls[c].pc = "updated"
  /\ calls[c].action = "APPROVE"
  /\ calls' = [calls EXCEPT ![c].pc = "counted",
                            ![c].left =
       PendingLeft(approvals, calls[c].rid)
         + Cardinality({calls[d].approval_id :
             d \in {e \in Callers \ {c} :
                      /\ calls[e].pc \in {"updated", "counted"}
                      /\ calls[e].approval_id # calls[c].approval_id}})]
  /\ UNCHANGED <<requests, approvals, ConcFrame>>

(* SELECT COUNT ... WHERE status is PENDING *)
MarkCount(c) ==
  /\ calls[c].pc = "updated"
  /\ calls[c].action = "APPROVE"
  /\ calls' = [calls EXCEPT ![c].pc = "counted",
                            ![c].left = PendingLeft(approvals, calls[c].rid)]
  /\ UNCHANGED <<requests, approvals, ConcFrame>>

(* req_update_status(...) and the return *)
MarkFinish(c) ==
  /\ \/ calls[c].pc = "counted"
     \/ calls[c].pc = "updated" /\ calls[c].action # "APPROVE"
  /\ LET f == calls[c] IN
       IF f.action = "APPROVE"
         THEN IF f.left = 0
                THEN /\ requests' = req_update_status(requests, f.rid, "APPROVED")
                     /\ calls' = [calls EXCEPT ![c].pc = "done",
                                     ![c].msg = "final approval done"]
                ELSE /\ requests' = requests
                     /\ calls' = [calls EXCEPT ![c].pc = "done",
                                     ![c].msg = "approved, next approver pending"]
         ELSE /\ requests' = req_update_status(requests, f.rid, "REJECTED")
              /\ calls' = [calls EXCEPT ![c].pc = "done", ![c].msg = "rejected"]
  /\ UNCHANGED <<approvals, ConcFrame>>

(* the caller has the result; its session may call again *)
MarkReturn(c) ==
  /\ calls[c].pc = "done"
  /\ calls' = [calls EXCEPT ![c] = IdleCall]
  /\ UNCHANGED <<requests, approvals, ConcFrame>>

NextConc ==
  \/ \E c \in Callers, a \in 1..(Len(approvals) + 1),
        act \in {"APPROVE", "REJECT"} :
       MarkCall(c, a, act, IF act = "REJECT" THEN <<"n", "g">> ELSE <<>>)
  \/ \E c \in Callers : MarkSelect(c)
  \/ \E c \in Callers : MarkUpdate(c)
  \/ \E c \in Callers : MarkCount(c)
  \/ \E c \in Callers : MarkFinish(c)
  \/ \E c \in Callers : MarkReturn(c)

SpecConc == InitConc /\ [][NextConc]_vars

(* the sessions only approve, each any step of the request *)
NextApprovers ==
  \/ \E c \in Callers, a \in DOMAIN approvals : MarkCall(c, a, "APPROVE", <<>>)
  \/ \E c \in Callers : MarkSelect(c)
  \/ \E c \in Callers : MarkUpdate(c)
  \/ \E c \in Callers : MarkCount(c)
  \/ \E c \in Callers : MarkFinish(c)
  \/ \E c \in Callers : MarkReturn(c)

SpecApprovers == InitConc /\ [][NextApprovers]_vars

-----------------------------------------------------------------------------
(* Claims *)

AllowedEdges ==
  { <<"PENDING_APPROVAL", "APPROVED">>, <<"PENDING_APPROVAL", "REJECTED">>,
    <<"APPROVED", "EXECUTING">>, <<"APPROVED", "DONE">>,
    <<"EXECUTING", "EXECUTING">>, <<"EXECUTING", "DONE">> }

StepsOf(i) == {a \in DOMAIN approvals : approvals[a].req_id = requests[i].id}

HasAllRequired(ph, rid) ==
  \A k \in {"pre_load", "post_load", "area_ctrl"} :
    \E p \in BagToSet(ph) : p.req_id = rid /\ p.slot_key = k

(* C1: in every step, the status of every request either stays as it is or *)
(* changes along one of the edges PENDING_APPROVAL->APPROVED,               *)
(* PENDING_APPROVAL->REJECTED, APPROVED->EXECUTING, APPROVED->DONE,         *)
(* EXECUTING->EXECUTING, EXECUTING->DONE.                                   *)
C1_StatusEdges ==
  [][\A i \in DOMAIN requests :
       requests'[i].status # requests[i].status
         => <<requests[i].status, requests'[i].status>> \in AllowedEdges]_vars

(* C2: with page_execute at its button for a request whose status is        *)
(* neither APPROVED nor EXECUTING, no step writes an execution record or    *)
(* changes a request (the register button fails).                           *)
C2_RegisterNeedsApproved ==
  [][(/\ pc = "execute_btn"
      /\ sel \in DOMAIN requests
      /\ requests[sel].status \notin {"APPROVED", "EXECUTING"})
       => (executions' = executions /\ requests' = requests)]_vars

(* C3: a request becomes DONE only in a step where its photo rows hold all  *)
(* three required slot keys (rows with slot key optional do not count), and *)
(* with page_execute at its button for a request that lacks a required slot *)
(* no step writes an execution record or changes a request.                 *)
C3_DoneOnlyWithRequiredPhotos ==
  [][/\ \A i \in DOMAIN requests :
          (requests[i].status # "DONE" /\ requests'[i].status = "DONE")
            => HasAllRequired(photos', i)
     /\ (/\ pc = "execute_btn"
         /\ sel \in DOMAIN requests
         /\ ~HasAllRequired(photos, sel))
          => (executions' = executions /\ requests' = requests)]_vars

(* C3 witness: a request is DONE and has an optional photo among its rows.  *)
C3_Witness ==
  \E i \in DOMAIN requests :
    /\ requests[i].status = "DONE"
    /\ \E e \in executions : e.req_id = i
    /\ CopiesIn([req_id |-> i, slot_key |-> "optional"], photos) >= 1

(* C4: when a session's approval_mark reads an approval id that is unknown  *)
(* or a step that is not PENDING, its next step is the return with the      *)
(* message not found / already processed, and that step changes no approval *)
(* step and no request.                                                     *)
C4_MarkNotPendingNoMutation ==
  [][\A c \in Callers :
       (/\ calls[c].pc = "called"
        /\ calls'[c] # calls[c]
        /\ \/ calls[c].approval_id \notin DOMAIN approvals
           \/ approvals[calls[c].approval_id].status # "PENDING")
         => /\ approvals' = approvals
            /\ requests' = requests
            /\ calls'[c].pc = "done"
            /\ calls'[c].msg =
                 IF calls[c].approval_id \in DOMAIN approvals
                   THEN "already processed" ELSE "not found"]_vars

(* C4 witness: one call has returned already processed and another has      *)
(* returned not found.                                                      *)
C4_Witness ==
  /\ calls[1].pc = "done" /\ calls[1].msg = "already processed"
  /\ calls[2].pc = "done" /\ calls[2].msg = "not found"

(* C5: a request whose status is APPROVED has all its approval steps        *)
(* APPROVED.                                                                *)
C5_ApprovedAllSigned ==
  \A i \in DOMAIN requests :
    requests[i].status = "APPROVED"
      => \A a \in StepsOf(i) : approvals[a].status = "APPROVED"

(* C6: a step that rejects a PENDING approval step leaves its request       *)
(* REJECTED, and once a request is REJECTED no step changes its status or   *)
(* any of its approval steps.                                               *)
C6_RejectedIsFinal ==
  [][\A i \in DOMAIN requests :
       /\ (\E a \in StepsOf(i) :
             approvals[a].status = "PENDING" /\ approvals'[a].status = "REJECTED")
            => requests'[i].status = "REJECTED"
       /\ requests[i].status = "REJECTED"
            => /\ requests'[i].status = "REJECTED"
               /\ \A a \in StepsOf(i) : approvals'[a] = approvals[a]]_vars

(* C7: a reject click with a reason that is empty or blank is answered with *)
(* the reason-required error, and the step that reports this error changes  *)
(* no approval step and no request; every REJECTED step has a reject_reason *)
(* that is set and not blank.                                               *)
C7_BlankReasonNoMutation ==
  [][/\ \A a \in DOMAIN approvals, rr \in ReasonInputs :
          (Strip(rr) = <<>> /\ PageApprovalReject(a, rr))
            => msg' = "reason required"
     /\ msg' = "reason required"
          => (approvals' = approvals /\ requests' = requests)
     /\ \A a \in DOMAIN approvals' :
          approvals'[a].status = "REJECTED"
            => /\ approvals'[a].reject_reason # NULL
               /\ Strip(approvals'[a].reject_reason) # <<>>]_vars

(* C7 witness: the reason-required error is on screen while a step has been *)
(* rejected with a reason before.                                           *)
C7_Witness ==
  /\ msg = "reason required"
  /\ \E a \in DOMAIN approvals :
       approvals[a].status = "REJECTED" /\ approvals[a].reject_reason = <<"n", "g">>

(* C8: a step leaves PENDING only by a logged-in session that holds the     *)
(* admin flag or whose role is the step's role_required; a session with the *)
(* admin flag, between runs, can approve every PENDING step; and a session  *)
(* gains the admin flag only by a login that supplies the stored admin PIN. *)
C8_RoleOrAdmin ==
  [][/\ \A a \in DOMAIN approvals :
          (approvals[a].status = "PENDING" /\ approvals'[a].status # "PENDING")
            => /\ session.AUTH_OK
               /\ session.IS_ADMIN \/ approvals[a].role_required = session.USER_ROLE
     /\ (pc = "idle" /\ session.AUTH_OK /\ session.IS_ADMIN)
          => \A a \in DOMAIN approvals :
               approvals[a].status = "PENDING"
                 => ENABLED PageApprovalApprove(a, <<"s", "i", "g", "n">>)
     /\ (~session.IS_ADMIN /\ session'.IS_ADMIN)
          => \E i \in LoginInputs :
               /\ i.is_admin
               /\ i.admin_pin = settings_get(settings, "admin_pin", DEFAULT_ADMIN_PIN)
               /\ PageLogin(i.site_pin, i.name, i.role, i.is_admin, i.admin_pin)]_vars

(* C8 witness: a step has been approved by a signer whose role is not the   *)
(* step's role_required, and the session now logged in, without the admin   *)
(* flag, faces a PENDING step of another role.                              *)
C8_Witness ==
  /\ \E a \in DOMAIN approvals :
       /\ approvals[a].status = "APPROVED"
       /\ approvals[a].signer_role # approvals[a].role_required
  /\ session.AUTH_OK /\ ~session.IS_ADMIN
  /\ \E a \in DOMAIN approvals :
       /\ approvals[a].status = "PENDING"
       /\ approvals[a].role_required # session.USER_ROLE

(* C9: a step leaves PENDING only when every step of the same request with  *)
(* a smaller step_no is APPROVED.                                           *)
C9_StepsInSequence ==
  [][\A a \in DOMAIN approvals :
       (approvals[a].status = "PENDING" /\ approvals'[a].status # "PENDING")
         => \A b \in DOMAIN approvals :
              (approvals[b].req_id = approvals[a].req_id
                 /\ approvals[b].step_no < approvals[a].step_no)
                => approvals[b].status = "APPROVED"]_vars

(* C10: a step that adds a request row adds one whose company name, item    *)
(* name, vehicle type and driver phone are all non-empty.                   *)
C10_SubmitValidates ==
  [][Len(requests') > Len(requests)
       => LET r == requests'[Len(requests')]
          IN /\ r.company_name # <<>>
             /\ r.item_name # <<>>
             /\ r.vehicle_type # <<>>
             /\ r.driver_phone # <<>>]_vars

(* C11: the submit button adds exactly one request, in PENDING_APPROVAL, and *)
(* behind the existing approval steps one PENDING step per role of the list  *)
(* that the stored routing gives for the request's direction at that moment, *)
(* numbered 1..n in list order; with no entry or an empty list for the       *)
(* direction the list is the single role gongsa (a routing text that cannot  *)
(* be read counts as the built-in default routing), so n >= 1.               *)
C11_SubmitCreatesSteps ==
  [][/\ \A k \in {KIND_IN, KIND_OUT}, f \in FormInputs :
          PageRequestSubmit(k, f) => Len(requests') = Len(requests) + 1
     /\ Len(requests') # Len(requests)
          => LET n == Len(requests) + 1
                 r == requests'[n]
                 raw == settings["approval_routing_json"]
                 cfg == IF raw = NotJson
                          THEN [IN |-> <<"gongsa">>, OUT |-> <<"anjeon", "gongsa">>]
                          ELSE raw
                 roles == IF r.kind \in DOMAIN cfg /\ cfg[r.kind] # <<>>
                            THEN cfg[r.kind] ELSE <<"gongsa">>
                 m == Len(approvals)
             IN /\ Len(requests') = n
                /\ SubSeq(requests', 1, n - 1) = requests
                /\ r.status = "PENDING_APPROVAL"
                /\ Len(roles) >= 1
                /\ Len(approvals') = m + Len(roles)
                /\ SubSeq(approvals', 1, m) = approvals
                /\ \A i \in 1..Len(roles) :
                     /\ approvals'[m + i].req_id = r.id
                     /\ approvals'[m + i].step_no = i
                     /\ approvals'[m + i].role_required = roles[i]
                     /\ approvals'[m + i].status = "PENDING"]_vars

(* C11 witness: an IN request submitted while the stored routing has an      *)
(* empty list for IN, with the single step gongsa, still PENDING.            *)
C11_Witness ==
  /\ settings["approval_routing_json"] # NotJson
  /\ "IN" \in DOMAIN settings["approval_routing_json"]
  /\ settings["approval_routing_json"]["IN"] = <<>>
  /\ \E i \in DOMAIN requests :
       /\ requests[i].kind = "IN"
       /\ Cardinality(StepsOf(i)) = 1
       /\ \A a \in StepsOf(i) :
            /\ approvals[a].role_required = "gongsa"
            /\ approvals[a].step_no = 1
            /\ approvals[a].status = "PENDING"

(* C12: every approval step that is APPROVED or REJECTED has a signer_name,  *)
(* a signer_role and a signed_at that are set and not empty; every request   *)
(* that is DONE has an execution record whose executed_by, executed_role and *)
(* executed_at are not empty; a run is past the login page only in a         *)
(* logged-in session, and a logged-in session has a non-blank user name.     *)
C12_AttributionNeverNull ==
  /\ \A a \in DOMAIN approvals :
       approvals[a].status \in {"APPROVED", "REJECTED"}
         => /\ approvals[a].signer_name # NULL
            /\ Strip(approvals[a].signer_name) # <<>>
            /\ approvals[a].signer_role \in Range(ROLES)
            /\ approvals[a].signed_at # NULL
            /\ approvals[a].signed_at # <<>>
  /\ \A i \in DOMAIN requests :
       requests[i].status = "DONE"
         => \E e \in executions :
              /\ e.req_id = requests[i].id
              /\ Strip(e.executed_by) # <<>>
              /\ e.executed_role \in Range(ROLES)
              /\ e.executed_at # <<>>
  /\ pc # "idle" => session.AUTH_OK
  /\ session.AUTH_OK => Strip(session.USER_NAME) # <<>>

(* C12 witness: a DONE request with its execution record, one of its steps   *)
(* APPROVED and another REJECTED.                                            *)
C12_Witness ==
  \E i \in DOMAIN requests :
    /\ requests[i].status = "DONE"
    /\ \E e \in executions : e.req_id = requests[i].id
    /\ \E a \in StepsOf(i) : approvals[a].status = "APPROVED"
    /\ \E a \in StepsOf(i) : approvals[a].status = "REJECTED"

(* What the store keeps of who did what and when: the requester columns of  *)
(* a request, the signer columns of a signed approval step, the executed_*  *)
(* columns of an execution record (the schema has no log table)             *)
AuditEntries ==
  {[req |-> requests[i].id, action |-> "SUBMIT", ref |-> 0,
    actor |-> requests[i].requester_name, role |-> requests[i].requester_role,
    at |-> requests[i].created_at] : i \in DOMAIN requests}
  \cup
  {[req |-> approvals[a].req_id, action |-> approvals[a].status, ref |-> a,
    actor |-> approvals[a].signer_name, role |-> approvals[a].signer_role,
    at |-> approvals[a].signed_at] :
      a \in {b \in DOMAIN approvals : approvals[b].status # "PENDING"}}
  \cup
  {[req |-> e.req_id, action |-> "EXECUTE", ref |-> 0,
    actor |-> e.executed_by, role |-> e.executed_role,
    at |-> e.executed_at] : e \in executions}

(* C13: every step that submits a request, takes an approval step out of    *)
(* PENDING or registers an execution adds exactly one entry to what the      *)
(* store keeps of who did what, with actor, role and time set, and no step   *)
(* changes or removes an entry.                                              *)
C13_AuditAppendOnly ==
  [][/\ AuditEntries \subseteq AuditEntries'
     /\ (\/ Len(requests') > Len(requests)
         \/ \E a \in DOMAIN approvals :
              approvals[a].status = "PENDING" /\ approvals'[a].status # "PENDING"
         \/ pc = "execute_btn" /\ requests' # requests)
          => /\ Cardinality(AuditEntries' \ AuditEntries) = 1
             /\ \A x \in AuditEntries' \ AuditEntries :
                  x.actor # <<>> /\ x.role \in Range(ROLES) /\ x.at # <<>>]_vars

(* C14: once a request is DONE, no step changes its status or replaces its   *)
(* execution record.                                                         *)
C14_DoneIsTerminal ==
  [][\A i \in DOMAIN requests :
       requests[i].status = "DONE"
         => /\ requests'[i].status = "DONE"
            /\ \A e \in executions :
                 e.req_id = requests[i].id => e \in executions']_vars

(* C15: taking for the roles allowed to upload execution photos the roles of *)
(* the site staff (every role but the contractor's, the one a new session    *)
(* carries), the register button pressed by a session of another role writes *)
(* no execution record and changes no request.                               *)
C15_RegisterNeedsPhotoRole ==
  [][(/\ pc = "execute_btn"
      /\ sel \in DOMAIN requests
      /\ session.USER_ROLE \notin {"gongsa", "anjeon", "gyeongbi"})
       => (executions' = executions /\ requests' = requests)]_vars

(* C16: after every step no two requests share an id; every request and     *)
(* every approval step that exists before a step exists after it, with the  *)
(* same id (and, for a step, the same request).                             *)
C16_IdsUniqueImmutable ==
  [][/\ \A i, j \in DOMAIN requests' :
          i # j => requests'[i].id # requests'[j].id
     /\ Len(requests') >= Len(requests)
     /\ \A i \in DOMAIN requests : requests'[i].id = requests[i].id
     /\ Len(approvals') >= Len(approvals)
     /\ \A a \in DOMAIN approvals :
          /\ approvals'[a].id = approvals[a].id
          /\ approvals'[a].req_id = approvals[a].req_id]_vars

(* C16 witness: two requests in the store, the first DONE with its          *)
(* execution record and the second REJECTED.                                *)
C16_Witness ==
  /\ Len(requests) = 2
  /\ requests[1].status = "DONE"
  /\ \E e \in executions : e.req_id = requests[1].id
  /\ requests[2].status = "REJECTED"

(* C17: a click on the login button logs the session in exactly when the    *)
(* site PIN typed equals the stored one, the name is not blank, the role is *)
(* one of the four roles and, with admin mode ticked, the admin PIN typed   *)
(* equals the stored one; otherwise it leaves the session as it was; and    *)
(* while AUTH_OK is false a run stays on the login page: no step changes a  *)
(* table or moves on to a workflow page.                                    *)
C17_LoginGate ==
  [][/\ \A i \in LoginInputs :
          PageLogin(i.site_pin, i.name, i.role, i.is_admin, i.admin_pin)
            => LET good ==
                     /\ i.site_pin = settings["site_pin"]
                     /\ Strip(i.name) # <<>>
                     /\ i.role \in {"hyeopryeoksa", "gongsa", "anjeon", "gyeongbi"}
                     /\ (i.is_admin => i.admin_pin = settings["admin_pin"])
               IN /\ session'.AUTH_OK <=> good
                  /\ good => /\ session'.IS_ADMIN = i.is_admin
                             /\ session'.USER_ROLE = i.role
                  /\ ~good => session' = session
     /\ ~session.AUTH_OK
          => /\ pc = "idle" /\ pc' = "idle"
             /\ db' = db]_vars

(* C17 witness: the user without the admin PIN is logged in while the       *)
(* stored site PIN is the one an admin has set.                             *)
C17_Witness ==
  /\ session.AUTH_OK
  /\ ~session.IS_ADMIN
  /\ session.USER_NAME = <<"j">>
  /\ settings["site_pin"] = <<"0">>
  /\ settings["admin_pin"] = <<"0">>

(* C18: no step changes the request, the step_no or the role_required of an *)
(* approval step or the number of steps of a request, and a step that       *)
(* changes the stored routing changes no approval step at all.              *)
C18_StepsFixedAtCreation ==
  [][/\ \A a \in DOMAIN approvals :
          /\ approvals'[a].req_id = approvals[a].req_id
          /\ approvals'[a].step_no = approvals[a].step_no
          /\ approvals'[a].role_required = approvals[a].role_required
     /\ \A i \in DOMAIN requests :
          Cardinality({a \in DOMAIN approvals' :
                         approvals'[a].req_id = requests[i].id})
            = Cardinality(StepsOf(i))
     /\ settings'["approval_routing_json"] # settings["approval_routing_json"]
          => approvals' = approvals]_vars

(* C18 witness: an OUT request keeps its two steps, the first one signed,   *)
(* while the stored routing for OUT is now the single role gongsa.          *)
C18_Witness ==
  /\ settings["approval_routing_json"] = [IN |-> <<"gongsa">>, OUT |-> <<"gongsa">>]
  /\ \E i \in DOMAIN requests :
       /\ requests[i].kind = "OUT"
       /\ Cardinality(StepsOf(i)) = 2
       /\ \E a \in StepsOf(i) :
            /\ approvals[a].step_no = 1
            /\ approvals[a].role_required = "anjeon"
            /\ approvals[a].status = "APPROVED"
       /\ \E a \in StepsOf(i) :
            /\ approvals[a].step_no = 2
            /\ approvals[a].role_required = "gongsa"
            /\ approvals[a].status = "PENDING"

(* C19: db_init_and_migrate run on the store of any state reached leaves it *)
(* as it is, and run twice gives what one run gives; the settings change    *)
(* only by the save button of the admin page, so the run of                 *)
(* db_init_and_migrate at the head of every other click resets nothing.     *)
C19_InitIdempotent ==
  [][/\ db_init_and_migrate(settings') = settings'
     /\ db_init_and_migrate(db_init_and_migrate(settings))
          = db_init_and_migrate(settings)
     /\ settings' # settings
          => /\ session.IS_ADMIN
             /\ \E f \in AdminForms : PageAdminSave(f)]_vars

(* C19 witness: with PINs and routing that an admin has set, a user who     *)
(* logged in afterwards is on the execute page of a request of their own     *)
(* that has been registered.                                                *)
C19_Witness ==
  /\ settings["site_pin"] = <<"0">>
  /\ settings["approval_routing_json"] = [IN |-> <<"gongsa">>, OUT |-> <<"gongsa">>]
  /\ session.USER_NAME = <<"j">>
  /\ pc = "execute_btn"
  /\ \E i \in DOMAIN requests :
       /\ requests[i].requester_name = <<"j">>
       /\ requests[i].status = "EXECUTING"
       /\ \E e \in executions : e.req_id = requests[i].id

-----------------------------------------------------------------------------
(* The schemes a training URL may carry, and the normalisation the          *)
(* specification describes: trimmed, "https://" put in front of a URL that  *)
(* has no scheme                                                            *)
WebSchemes == {"http://", "https://"}

HasScheme(u) == u # <<>> /\ Head(u) \in WebSchemes \cup {"ftp://"}

NormalisedUrl(u) ==
  IF HasScheme(Strip(u)) THEN Strip(u) ELSE <<"https://">> \o Strip(u)

(* C21: the training URL of a request is normalised before it is encoded    *)
(* in the QR code: the URL of every outputs row made for a request with a   *)
(* URL of its own is that URL trimmed, with "https://" in front when it had *)
(* no scheme, and is never a URL with a scheme other than http or https.    *)
(* The code only trims the URL (or falls back to the default): this fails.  *)
C21_UrlNormalised ==
  \A o \in outputs :
    LET u == requests[o.req_id].sic_training_url
    IN  u # <<>> =>
          /\ Head(o.sic_url) \in WebSchemes
          /\ o.sic_url = NormalisedUrl(u)

(* C22: approval_mark holds no version or token between its PENDING check   *)
(* and its writes, and the last writer wins: a call that has passed the     *)
(* check writes its own status and signer into the step whatever the step   *)
(* holds by then, reports success, and a call that writes the request       *)
(* status leaves the status of its own action.                              *)
C22_LastWriterWins ==
  [][\A c \in Callers :
       LET f == calls[c] IN
       /\ (f.pc = "checked" /\ calls'[c].pc = "updated")
            => /\ approvals'[f.approval_id].status =
                    (IF f.action = "APPROVE" THEN "APPROVED" ELSE "REJECTED")
               /\ approvals'[f.approval_id].signer_name = f.signer_name
               /\ approvals'[f.approval_id].signer_role = f.signer_role
       /\ (f.pc \in {"updated", "counted"} /\ calls'[c].pc = "done")
            => /\ calls'[c].msg \in {"final approval done", "rejected",
                                     "approved, next approver pending"}
               /\ calls'[c].msg = "rejected"
                    => requests'[f.rid].status = "REJECTED"
               /\ calls'[c].msg = "final approval done"
                    => requests'[f.rid].status = "APPROVED"
               /\ calls'[c].msg = "approved, next approver pending"
                    => requests' = requests]_vars

(* C22 witness: two calls on the same step, one approving and one           *)
(* rejecting, have both returned success; the step holds the rejection of   *)
(* the second caller, who wrote the step last, and the request holds the    *)
(* approval of the first, who wrote the request last.                       *)
C22_Witness ==
  /\ calls[1].pc = "done" /\ calls[2].pc = "done"
  /\ calls[1].approval_id = calls[2].approval_id
  /\ calls[1].msg = "final approval done" /\ calls[2].msg = "rejected"
  /\ approvals[calls[1].approval_id].status = "REJECTED"
  /\ approvals[calls[1].approval_id].signer_name = CallerName[2]
  /\ requests[calls[1].rid].status = "APPROVED"

(* C23: a request's status changes only on an explicit action button: a run *)
(* that only renders pages, the execution page included, with no photo      *)
(* taken and no button clicked, leaves the status of every request as it    *)
(* was, so a request just APPROVED is still APPROVED after the render.      *)
(* The render of the execution page sets EXECUTING: this fails.             *)
C23_RenderKeepsStatus ==
  [][\A rid \in DOMAIN requests :
       PageExecuteRender(rid, {}, {})
         => \A i \in DOMAIN requests :
              requests'[i].status = requests[i].status]_vars

(* C24: a request that has an outputs record has been APPROVED or DONE      *)
(* before: a step that makes the first outputs record of a request leaves   *)
(* that request APPROVED, EXECUTING or DONE, never PENDING_APPROVAL or      *)
(* REJECTED.  The regenerate button tests no status: this fails.            *)
C24_OutputsOnlyAfterApproval ==
  [][\A i \in DOMAIN requests :
       (/\ \E o \in outputs' : o.req_id = i
        /\ ~ \E o \in outputs : o.req_id = i)
         => requests'[i].status \in {"APPROVED", "EXECUTING", "DONE"}]_vars

(* C25: approving, rejecting, rendering the execution page and registering  *)
(* an execution change no field of a request other than status and          *)
(* updated_at, and a step that acts on one request changes no field of any  *)
(* other request: every step leaves each stored request as it was but for   *)
(* these two fields, and changes at most one request.                       *)
C25_OnlyStatusOfOneRequest ==
  [][/\ \A i \in DOMAIN requests :
          /\ i \in DOMAIN requests'
          /\ [requests'[i] EXCEPT !.status = requests[i].status,
                                  !.updated_at = requests[i].updated_at]
               = requests[i]
     /\ Cardinality({i \in DOMAIN requests : requests'[i] # requests[i]})
          <= 1]_vars

(* C25 witness: two requests in the store, the first approved, executed and *)
(* DONE, the second rejected.                                               *)
C25_Witness ==
  /\ Len(requests) = 2
  /\ requests[1].status = "DONE"
  /\ \E e \in executions : e.req_id = 1
  /\ \A a \in StepsOf(1) : approvals[a].status = "APPROVED"
  /\ requests[2].status = "REJECTED"

(* C26: when the steps of one request are approved by sessions that run     *)
(* approval_mark at the same time, then under every interleaving of their   *)
(* statements the request is APPROVED once all sessions have finished and   *)
(* every step is APPROVED.                                                  *)
C26_ConcurrentApprovalsComplete ==
  \A i \in DOMAIN requests :
    (/\ \A c \in Callers : calls[c].pc \in {"idle", "done"}
     /\ \A a \in StepsOf(i) : approvals[a].status = "APPROVED")
      => requests[i].status = "APPROVED"

(* C26 witness: the two steps of a request were approved by two sessions    *)
(* whose calls overlapped: both counted after both updates and both         *)
(* returned the final approval.                                             *)
C26_Witness ==
  /\ Len(approvals) = 2
  /\ calls[1].pc = "done" /\ calls[1].approval_id = 1
  /\ calls[2].pc = "done" /\ calls[2].approval_id = 2
  /\ calls[1].msg = "final approval done"
  /\ calls[2].msg = "final approval done"
  /\ \A a \in StepsOf(1) : approvals[a].status = "APPROVED"
  /\ requests[1].status = "APPROVED"

(* C27: photo rows are only added, never changed or removed; once          *)
(* required_photos_ok is true for a request it stays true; and a step that  *)
(* adds photos to one request and none to another leaves the other's        *)
(* required_photos_ok as it was.                                            *)
C27_PhotosAppendOnly ==
  [][/\ photos \sqsubseteq photos'
     /\ \A i \in DOMAIN requests :
          required_photos_ok(photos, i) => required_photos_ok(photos', i)
     /\ \A i \in DOMAIN requests :
          (\A p \in BagToSet(photos') :
             p.req_id = i => CopiesIn(p, photos') = CopiesIn(p, photos))
            => required_photos_ok(photos', i) = required_photos_ok(photos, i)
    ]_vars

(* C27 witness: the first request has its three required photos; the second *)
(* has an optional photo of its own and still lacks a required one.         *)
C27_Witness ==
  /\ Len(requests) = 2
  /\ required_photos_ok(photos, 1)
  /\ CopiesIn(PhotoRow(2, "optional"), photos) >= 1
  /\ ~required_photos_ok(photos, 2)

(* C28: a request has at most one execution record, and a request that is  *)
(* DONE has exactly one, with required_photo_ok = 1 and the check card      *)
(* stored in check_json: the record is written before the status is set.    *)
C28_OneExecutionRecord ==
  \A i \in DOMAIN requests :
    LET recs == {e \in executions : e.req_id = i} IN
    /\ Cardinality(recs) <= 1
    /\ requests[i].status = "DONE"
         => /\ Cardinality(recs) = 1
            /\ \A e \in recs : /\ e.required_photo_ok = 1
                                /\ e.check_json \in CheckInputs

(* C28 witness: a request is DONE and its execution record names a user     *)
(* other than the one who submitted the request.                            *)
C28_Witness ==
  \E i \in DOMAIN requests :
    /\ requests[i].status = "DONE"
    /\ \E e \in executions :
         e.req_id = i /\ e.executed_by # requests[i].requester_name

TypeOK ==
  /\ pc \in {"idle", "execute", "execute_btn", "tail"}
  /\ Len(requests) <= MaxReq
====
